---- MODULE Spec2Model ----
(***************************************************************************)
(* ArduinoUploader (src/src/services/serialService.ts): one run of         *)
(* uploadSketch over a Web Serial port, with the bootloader and the two    *)
(* streams of the port as the environment.                                 *)
(***************************************************************************)
EXTENDS Integers, Sequences, FiniteSets, TLC

\* ---- STK500v1 protocol constants ----
STK_GET_SYNC == 48
STK_LOAD_ADDRESS == 85
STK_PROG_PAGE == 100
STK_READ_PAGE == 116
STK_LEAVE_PROGMODE == 81
STK_ENTER_PROGMODE == 80
STK_OK == 16
STK_FAILED == 17
STK_INSYNC == 20
STK_CRC_EOP == 32
FLASH_MEMTYPE == 70
maxSyncAttempts == 10
expectedLength == 2
MinRecordLen == 11

\* ---- bounds of the exploration ----
\* complete 2-byte sync answers other than (INSYNC, OK) the bootloader gives in one run
MaxBadSync == 1

\* ---- Intel-HEX text: a sequence of lines, each a sequence of characters ----
DataRec1 == <<":","0","1","0","0","0","0","0","0","4","1","B","E">>
DataRec2 == <<":","0","2","0","1","0","0","0","0","1","2","3","4","B","7">>
EofRec == <<":","0","0","0","0","0","0","0","1","F","F">>
BlankLine == <<>>

\* an extended-linear-address record (type 04)
ExtAddrRec == <<":","0","2","0","0","0","0","0","4","0","0","0","1","F","9">>
\* the same record with another upper address
ExtAddrRec2 == <<":","0","2","0","0","0","0","0","4","0","0","0","2","F","8">>
\* a data record with byte count 0
ZeroLenRec == <<":","0","0","0","0","1","0","0","0","F","0">>
\* a line that does not begin with the record marker
CommentLine == <<";"," ","x">>
\* DataRec1 with a wrong checksum byte
BadChecksumRec == <<":","0","1","0","0","0","0","0","0","4","1","0","0">>
\* a data record with an invalid hex digit in its data
BadDigitRec == <<":","0","1","0","0","0","0","0","0","G","1","B","E">>
\* a data record that declares 2 bytes and carries 1 before its checksum
ShortRec == <<":","0","2","1","2","A","4","0","0","A","B","5","3">>

\* ---- bounds of the hex texts of HexSpec ----
MaxHexLines == 3

\* ---- bounds of ReadSpec: chunks delivered, calls of readResponse ----
MaxChunks == 3
MaxReads == 2

\* ---- bound of ServiceSpec: chunks the read loop receives ----
MaxMessages == 2

HexLineSet ==
  { DataRec1, DataRec2, EofRec, BlankLine, ExtAddrRec, ExtAddrRec2, ZeroLenRec,
    CommentLine, BadChecksumRec, BadDigitRec, ShortRec }

\* every text of at most MaxHexLines lines
WideHexTexts == UNION {[1..n -> HexLineSet] : n \in 0..MaxHexLines}

HexTexts ==
  { <<>>,
    <<DataRec1, EofRec>>,
    <<DataRec2, BlankLine, DataRec1, EofRec>> }

\* chunks the readable stream may deliver to one read()
Chunks ==
  { <<>>, <<STK_INSYNC>>, <<STK_OK>>, <<STK_INSYNC, STK_OK>>,
    <<STK_INSYNC, STK_FAILED>>, <<STK_OK, STK_OK, STK_INSYNC>> }

NaN == -1

Min(a, b) == IF a < b THEN a ELSE b

\* value of one hexadecimal digit, NaN for any other character
HexVal(c) ==
  CASE c = "0" -> 0 [] c = "1" -> 1 [] c = "2" -> 2 [] c = "3" -> 3
    [] c = "4" -> 4 [] c = "5" -> 5 [] c = "6" -> 6 [] c = "7" -> 7
    [] c = "8" -> 8 [] c = "9" -> 9
    [] c \in {"A", "a"} -> 10 [] c \in {"B", "b"} -> 11
    [] c \in {"C", "c"} -> 12 [] c \in {"D", "d"} -> 13
    [] c \in {"E", "e"} -> 14 [] c \in {"F", "f"} -> 15
    [] OTHER -> NaN

RECURSIVE ParseDigits(_, _, _)
\* the longest prefix of hex digits of s, accumulated; NaN when it is empty
ParseDigits(s, acc, any) ==
  IF s = <<>> \/ HexVal(Head(s)) = NaN
    THEN (IF any THEN acc ELSE NaN)
    ELSE ParseDigits(Tail(s), acc * 16 + HexVal(Head(s)), TRUE)

RECURSIVE TrimStart(_)
TrimStart(s) ==
  IF s # <<>> /\ Head(s) \in {" ", "\t", "\r"} THEN TrimStart(Tail(s)) ELSE s

\* parseInt(s, 16): leading white space, an optional sign, an optional 0x,
\* then the longest prefix of hex digits
ParseInt16(s) ==
  LET t == TrimStart(s)
      neg == t # <<>> /\ Head(t) = "-"
      u == IF t # <<>> /\ Head(t) \in {"-", "+"} THEN Tail(t) ELSE t
      v == IF Len(u) >= 2 /\ Head(u) = "0" /\ u[2] \in {"x", "X"}
             THEN Tail(Tail(u)) ELSE u
      d == ParseDigits(v, 0, FALSE)
  IN IF d = NaN THEN NaN ELSE IF neg THEN 0 - d ELSE d

\* String.prototype.substr(start, length), start counted from 0
Substr(s, start, length) ==
  SubSeq(s, start + 1, Min(start + length, Len(s)))

RECURSIVE InsertByAddress(_, _)
InsertByAddress(line, sorted) ==
  IF sorted = <<>> \/ ParseInt16(Substr(line, 3, 4)) < ParseInt16(Substr(Head(sorted), 3, 4))
    THEN <<line>> \o sorted
    ELSE <<Head(sorted)>> \o InsertByAddress(line, Tail(sorted))

RECURSIVE SortByAddress(_)
SortByAddress(seq) ==
  IF seq = <<>> THEN <<>>
  ELSE InsertByAddress(seq[Len(seq)], SortByAddress(SubSeq(seq, 1, Len(seq) - 1)))

\* variant: the record lines are put in address order
FilterLinesSorted(text) ==
  SortByAddress(SelectSeq(text, LAMBDA line : TrimStart(line) # <<>> /\ Head(line) = ":"))

\* hexData.split('\n').filter(line => line.trim() && line.startsWith(':'))
FilterLines(text) ==
  SelectSeq(text, LAMBDA line : TrimStart(line) # <<>> /\ Head(line) = ":")

\* element conversion of new Uint8Array(command)
ToUint8(x) == IF x = NaN THEN 0 ELSE x % 256

\* x & 0xFF and (x >> 8) & 0xFF on a non-negative number; NaN converts to 0
LowByte(x) == IF x = NaN THEN 0 ELSE x % 256
HighByte(x) == IF x = NaN THEN 0 ELSE (x \div 256) % 256

dataLengthOf(line) == ParseInt16(Substr(line, 1, 2))
recordTypeOf(line) == ParseInt16(Substr(line, 7, 2))
recordAddressOf(line) == ParseInt16(Substr(line, 3, 4))
dataOf(line) ==
  [j \in 1..dataLengthOf(line) |-> ParseInt16(Substr(line, 9 + (j - 1) * 2, 2))]

\* variant: the record type is not tested
IsDataRecordAnyType(line) ==
  /\ Len(line) >= MinRecordLen
  /\ dataLengthOf(line) > 0

\* variant: the byte count is not tested
IsDataRecordZeroLength(line) ==
  /\ Len(line) >= MinRecordLen
  /\ recordTypeOf(line) = 0

\* the record is written to flash
IsDataRecord(line) ==
  /\ Len(line) >= MinRecordLen
  /\ recordTypeOf(line) = 0
  /\ dataLengthOf(line) > 0

SyncCommand == <<STK_GET_SYNC, STK_CRC_EOP>>
EnterCommand == <<STK_ENTER_PROGMODE, STK_CRC_EOP>>
LeaveCommand == <<STK_LEAVE_PROGMODE, STK_CRC_EOP>>
\* variant: the byte address is converted to a word address
LoadAddressCommandWord(address) ==
  <<STK_LOAD_ADDRESS, LowByte(address \div 2), HighByte(address \div 2), STK_CRC_EOP>>

\* variant: the high byte of the address is sent first
LoadAddressCommandHighFirst(address) ==
  <<STK_LOAD_ADDRESS, HighByte(address), LowByte(address), STK_CRC_EOP>>

LoadAddressCommand(address) ==
  <<STK_LOAD_ADDRESS, LowByte(address), HighByte(address), STK_CRC_EOP>>
\* variant: the length is sent low byte first
ProgPageCommandLowFirst(data) ==
  <<STK_PROG_PAGE, LowByte(Len(data)), HighByte(Len(data)), FLASH_MEMTYPE>>
    \o [k \in 1..Len(data) |-> ToUint8(data[k])] \o <<STK_CRC_EOP>>

ProgPageCommand(data) ==
  <<STK_PROG_PAGE, HighByte(Len(data)), LowByte(Len(data)), FLASH_MEMTYPE>>
    \o [k \in 1..Len(data) |-> ToUint8(data[k])] \o <<STK_CRC_EOP>>

\* variant: only the status byte is tested
IsOkStatusOnly(resp) == resp[2] = STK_OK

IsOk(resp) == resp[1] = STK_INSYNC /\ resp[2] = STK_OK

VARIABLES
  pc,            \* control point of uploadSketch
  phase,         \* the exchange in progress: init, sync, enter, load, page, leave
  hexData,       \* options.hexData, as lines
  rdCap, wrCap,  \* port.readable / port.writable: absent, free or locked
  sigCap,        \* 'setSignals' in port: present or absent
  signals,       \* the setSignals calls that took effect on the port
  reader, writer,\* this.reader / this.writer: "null" or "held"
  readable,      \* the port's readable stream: open, silent, closed, errored
  writable,      \* the port's writable stream: open, errored
  syncAttempts,
  response,      \* response accumulated by readResponse
  expired,       \* Date.now() >= timeout of the current readResponse
  hexLines, i,   \* uploadHexData locals
  recAddress, recData, \* writePage arguments
  written,       \* commands written to the transport, each with its read outcome
  events,        \* progress events delivered to onProgress
  error,         \* the error being thrown or caught
  result,        \* value returned by uploadSketch
  cancelCalls, closeCalls, cleanupRuns, \* calls of reader.cancel, writer.close, cleanup
  badSync,       \* complete non-OK sync answers so far
  opened,        \* the baud rate the port passed to uploadSketch is open at, 0 when closed
  baudRate,      \* options.baudRate
  cancelRequested \* the caller has asked for the run to be cancelled

\* the uploader object shared by overlapping calls of uploadSketch
\* (the exported arduinoUploader), used by ReentrantSpec
VARIABLES
  thisPort,      \* this.port: 0 for null, else a port
  thisReader,    \* this.reader: NoHandle, or the handle a call acquired
  thisWriter,    \* this.writer
  call,          \* per call: its control point, command index, sync attempts, result
  lock,          \* per port: the call holding the lock of each stream, 0 when free
  wire,          \* per port: the commands written to it, each with the call that wrote it
  released       \* the cancel() and close() calls: kind, handle, and the call that made it

session == <<thisPort, thisReader, thisWriter, call, lock, wire, released>>

single == <<pc, phase, hexData, rdCap, wrCap, sigCap, signals, reader, writer, readable, writable,
          syncAttempts, response, expired, hexLines, i, recAddress, recData,
          written, events, error, result, cancelCalls, closeCalls, cleanupRuns,
          badSync, opened, baudRate, cancelRequested>>

\* one call of readResponse after another on a given sequence of chunks,
\* used by ReadSpec
VARIABLES
  incoming,      \* the chunks the reads of the stream resolve with, in order
  readCall,      \* the call of readResponse in progress: control point and response
  returned       \* the responses returned so far, each with the number of chunks read by then

\* the exported serialService and its port, used by ServiceSpec
VARIABLES
  service,       \* the fields port, reader, writer and isConnected
  serviceAt,     \* control points of connect, disconnect and the read loop
  servicePort    \* the port: its streams, the lock of the reader, the messages received

readModel == <<incoming, readCall, returned>>
serviceModel == <<service, serviceAt, servicePort>>
extra == <<readModel, serviceModel>>

vars == <<single, session, extra>>

\* what no step of a single run changes
inputs == <<hexData, rdCap, wrCap, sigCap, session, opened, baudRate, cancelRequested, extra>>

Ports == {1, 2}
\* the rates of getBoardUploadParams
BaudRates == {57600, 115200}
DefaultBaud == 115200
Calls == {1, 2}
NoHandle == [port |-> 0, owner |-> 0]
\* the commands of a run with one data record: sync, enter, load, page, leave
CommandSequence ==
  <<STK_GET_SYNC, STK_ENTER_PROGMODE, STK_LOAD_ADDRESS, STK_PROG_PAGE, STK_LEAVE_PROGMODE>>

\* the uploader before any call
SessionIdle ==
  /\ thisPort = 0
  /\ thisReader = NoHandle
  /\ thisWriter = NoHandle
  /\ call = [r \in Calls |-> [pc |-> "idle", cmd |-> 1, syncAttempts |-> 0, result |-> "none"]]
  /\ lock = [p \in Ports |-> [readable |-> 0, writable |-> 0]]
  /\ wire = [p \in Ports |-> {}]
  /\ released = {}
\* no call of readResponse under study
ReadIdle ==
  /\ incoming = <<>>
  /\ readCall = [pc |-> "idle", response |-> <<>>, taken |-> 0]
  /\ returned = <<>>

\* the service after construction, and a port that is not open
ServiceIdle ==
  /\ service = [port |-> "null", reader |-> "null", writer |-> "null", isConnected |-> FALSE]
  /\ serviceAt = [connect |-> "idle", disconnect |-> "idle", loop |-> "none"]
  /\ servicePort = [readable |-> "absent", writable |-> "absent", released |-> FALSE,
                    received |-> 0, sent |-> 0]

ExtraIdle == ReadIdle /\ ServiceIdle

handles == <<reader, writer>>
readLocals == <<response, expired>>
hexLocals == <<hexLines, i, recAddress, recData>>
counters == <<cancelCalls, closeCalls, cleanupRuns>>

\* a progress event; its progress is the fraction num / den
Event(stage, num, den) == [stage |-> stage, num |-> num, den |-> den, msg |-> ""]

\* `Timeout waiting for response. Expected ${expectedLength}, got ${response.length}`
TimeoutError(got) ==
  IF got = 0 THEN "Timeout waiting for response. Expected 2, got 0"
             ELSE "Timeout waiting for response. Expected 2, got 1"

Init ==
  /\ pc = "start"
  /\ phase = "init"
  /\ hexData \in HexTexts
  /\ rdCap \in {"absent", "free", "locked"}
  /\ wrCap \in {"absent", "free", "locked"}
  /\ sigCap \in {"present", "absent"}
  /\ signals = <<>>
  /\ reader = "null"
  /\ writer = "null"
  /\ readable = "open"
  /\ writable = "open"
  /\ syncAttempts = 0
  /\ response = <<>>
  /\ expired = FALSE
  /\ hexLines = <<>>
  /\ i = 0
  /\ recAddress = 0
  /\ recData = <<>>
  /\ written = <<>>
  /\ events = <<>>
  /\ error = "none"
  /\ result = "none"
  /\ cancelCalls = 0
  /\ closeCalls = 0
  /\ cleanupRuns = 0
  /\ badSync = 0
  /\ opened = DefaultBaud
  /\ baudRate = DefaultBaud
  /\ cancelRequested = FALSE
  /\ SessionIdle
  /\ ExtraIdle

\* where a throw lands: the catch of the sync loop, or the catch of uploadSketch
Throw(e) ==
  /\ error' = e
  /\ pc' = IF phase = "sync" THEN "syncCatch" ELSE "catch"

MarkLast(res) == written' = [written EXCEPT ![Len(written)].res = res]


\* ---- sendCommand (the write of one command) ----
SendCommand(cmd, line) ==
  \/ /\ writer = "null"
     /\ Throw("Writer not available")
     /\ UNCHANGED <<written, writable>>
  \/ /\ writer = "held"
     /\ writable = "open"
     /\ written' = Append(written, [cmd |-> cmd, res |-> "none", line |-> line])
     /\ pc' = "readResponse"
     /\ UNCHANGED <<writable, error>>
  \/ /\ writer = "held"
     /\ writable' = "errored"
     /\ Throw("write failed")
     /\ UNCHANGED written

\* ---- resetArduino ----
\* the three setSignals calls of the DTR/RTS toggle
ResetSequence ==
  << [dataTerminalReady |-> "false", requestToSend |-> "false"],
     [dataTerminalReady |-> "true", requestToSend |-> "true"],
     [dataTerminalReady |-> "false", requestToSend |-> "unchanged"] >>

\* the calls are made in order until one throws; the throw is caught and logged
\* variant: a reset that cannot be performed ends the run
ResetArduinoFatal ==
  /\ pc = "start"
  /\ IF sigCap = "present"
       THEN \E done \in 0..Len(ResetSequence) :
              /\ signals' = SubSeq(ResetSequence, 1, done)
              /\ IF done = Len(ResetSequence)
                   THEN pc' = "acquireStreams" /\ UNCHANGED error
                   ELSE Throw("DTR reset failed")
       ELSE UNCHANGED signals /\ Throw("DTR reset not supported")
  /\ UNCHANGED <<phase, inputs, handles, readable, writable, syncAttempts,
                 readLocals, hexLocals, written, events, result,
                 counters, badSync>>

ResetArduino ==
  /\ pc = "start"
  /\ IF sigCap = "present"
       THEN \E done \in 0..Len(ResetSequence) :
              signals' = SubSeq(ResetSequence, 1, done)
       ELSE UNCHANGED signals
  /\ pc' = "acquireStreams"
  /\ UNCHANGED <<phase, inputs, handles, readable, writable, syncAttempts,
                 readLocals, hexLocals, written, events, error, result,
                 counters, badSync>>

\* ---- initializeConnection, after the reset and the 2 s delay ----
InitializeConnection ==
  /\ pc = "acquireStreams"
  /\ \/ /\ rdCap = "locked"
        /\ Throw("getReader failed")
        /\ UNCHANGED <<reader, writer>>
     \/ /\ rdCap # "locked"
        /\ reader' = IF rdCap = "free" THEN "held" ELSE "null"
        /\ \/ /\ wrCap = "locked"
              /\ Throw("getWriter failed")
              /\ UNCHANGED writer
           \/ /\ wrCap # "locked"
              /\ writer' = IF wrCap = "free" THEN "held" ELSE "null"
              /\ pc' = "enterProgrammingMode"
              /\ UNCHANGED error
  /\ UNCHANGED <<signals, phase, inputs, readable, writable, syncAttempts, readLocals,
                 hexLocals, written, events, result, counters, badSync>>

\* ---- enterProgrammingMode ----
EnterProgrammingMode ==
  /\ pc = "enterProgrammingMode"
  /\ events' = Append(events, Event("connecting", 10, 1))
  /\ syncAttempts' = 0
  /\ phase' = "sync"
  /\ pc' = "syncLoop"
  /\ UNCHANGED <<signals, inputs, handles, readable, writable, readLocals, hexLocals,
                 written, error, result, counters, badSync>>

SyncSend ==
  /\ pc = "syncLoop"
  /\ IF syncAttempts < maxSyncAttempts
       THEN SendCommand(SyncCommand, 0)
       ELSE pc' = "synced" /\ UNCHANGED <<written, writable, error>>
  /\ UNCHANGED <<signals, phase, inputs, handles, readable, syncAttempts, readLocals,
                 hexLocals, events, result, counters, badSync>>

SyncCheck ==
  /\ pc = "check"
  /\ phase = "sync"
  /\ IF IsOk(response)
       THEN /\ MarkLast("ok")
            /\ pc' = "synced"
            /\ UNCHANGED badSync
       ELSE /\ MarkLast("bad")
            /\ pc' = "syncLoop"
            /\ badSync' = badSync + 1
  /\ response' = <<>>
  /\ UNCHANGED <<signals, phase, inputs, handles, readable, writable, syncAttempts,
                 expired, hexLocals, events, error, result, counters>>

\* variant: the attempts are exhausted one failure early
SyncCatchEarly ==
  /\ pc = "syncCatch"
  /\ syncAttempts' = syncAttempts + 1
  /\ IF syncAttempts + 1 >= maxSyncAttempts - 1
       THEN /\ error' = "Failed to sync with bootloader"
            /\ pc' = "catch"
       ELSE /\ pc' = "syncLoop"
            /\ UNCHANGED error
  /\ response' = <<>>
  /\ UNCHANGED <<signals, phase, inputs, handles, readable, writable, expired,
                 hexLocals, written, events, result, counters, badSync>>

SyncCatch ==
  /\ pc = "syncCatch"
  /\ syncAttempts' = syncAttempts + 1
  /\ IF syncAttempts + 1 >= maxSyncAttempts
       THEN /\ error' = "Failed to sync with bootloader"
            /\ pc' = "catch"
       ELSE /\ pc' = "syncLoop"
            /\ UNCHANGED error
  /\ response' = <<>>
  /\ UNCHANGED <<signals, phase, inputs, handles, readable, writable, expired,
                 hexLocals, written, events, result, counters, badSync>>

Synced ==
  /\ pc = "synced"
  /\ events' = Append(events, Event("syncing", 20, 1))
  /\ phase' = "enter"
  /\ pc' = "enterSend"
  /\ UNCHANGED <<signals, inputs, handles, readable, writable, syncAttempts, readLocals,
                 hexLocals, written, error, result, counters, badSync>>

EnterSend ==
  /\ pc = "enterSend"
  /\ SendCommand(EnterCommand, 0)
  /\ UNCHANGED <<signals, phase, inputs, handles, readable, syncAttempts, readLocals,
                 hexLocals, events, result, counters, badSync>>

\* variant: a non-OK response is recorded and the sequence continues
CheckOrContinue(next, e) ==
  /\ pc = "check"
  /\ MarkLast(IF IsOk(response) THEN "ok" ELSE "bad")
  /\ pc' = next
  /\ UNCHANGED error
  /\ response' = <<>>

\* the test of a response everywhere but in the sync loop
CheckOrThrow(next, e) ==
  /\ pc = "check"
  /\ IF IsOk(response)
       THEN /\ MarkLast("ok")
            /\ pc' = next
            /\ UNCHANGED error
       ELSE /\ MarkLast("bad")
            /\ Throw(e)
  /\ response' = <<>>

\* variant: ENTER_PROGMODE is sent again after a non-OK answer
EnterCheckRetry ==
  /\ phase = "enter"
  /\ pc = "check"
  /\ IF IsOk(response)
       THEN /\ MarkLast("ok")
            /\ pc' = "uploadHexData"
       ELSE /\ MarkLast("bad")
            /\ pc' = "enterSend"
  /\ response' = <<>>
  /\ UNCHANGED <<signals, phase, inputs, handles, readable, writable, syncAttempts,
                 expired, hexLocals, events, error, result, counters, badSync>>

EnterCheck ==
  /\ phase = "enter"
  /\ CheckOrThrow("uploadHexData", "Failed to enter programming mode")
  /\ UNCHANGED <<signals, phase, inputs, handles, readable, writable, syncAttempts,
                 expired, hexLocals, events, result, counters, badSync>>

\* ---- readResponse ----
\* variant: a missing reader ends the run without another sync attempt
ReadResponseFatal ==
  /\ pc = "readResponse"
  /\ IF reader = "null"
       THEN /\ error' = "Reader not available"
            /\ pc' = "catch"
            /\ MarkLast("noreader")
            /\ UNCHANGED readLocals
       ELSE /\ response' = <<>>
            /\ expired' = FALSE
            /\ pc' = "awaitRead"
            /\ UNCHANGED <<error, written>>
  /\ UNCHANGED <<signals, phase, inputs, handles, readable, writable, syncAttempts,
                 hexLocals, events, result, counters, badSync>>

ReadResponse ==
  /\ pc = "readResponse"
  /\ IF reader = "null"
       THEN /\ Throw("Reader not available")
            /\ MarkLast("noreader")
            /\ UNCHANGED readLocals
       ELSE /\ response' = <<>>
            /\ expired' = FALSE
            /\ pc' = "awaitRead"
            /\ UNCHANGED <<error, written>>
  /\ UNCHANGED <<signals, phase, inputs, handles, readable, writable, syncAttempts,
                 hexLocals, events, result, counters, badSync>>

\* variant: every byte of the chunk is pushed
AccumulateAll(resp, chunk) == resp \o chunk

\* the bytes of a chunk are pushed until the response is complete
Accumulate(resp, chunk) ==
  SubSeq(resp \o chunk, 1, Min(Len(resp) + Len(chunk), expectedLength))

\* reader.read() resolves with a chunk
ReadChunk ==
  /\ pc = "awaitRead"
  /\ readable = "open"
  /\ \E chunk \in Chunks :
       LET resp == Accumulate(response, chunk) IN
       /\ (phase = "sync" /\ Len(resp) >= expectedLength /\ ~IsOk(resp))
            => badSync < MaxBadSync
       /\ IF Len(resp) >= expectedLength
            THEN /\ response' = resp
                 /\ pc' = "check"
                 /\ UNCHANGED <<error, written>>
            ELSE IF expired
              THEN /\ Throw(TimeoutError(Len(resp)))
                   /\ MarkLast("fail")
                   /\ response' = resp
              ELSE /\ response' = resp
                   /\ UNCHANGED <<pc, error, written>>
  /\ UNCHANGED <<signals, phase, inputs, handles, readable, writable, syncAttempts,
                 expired, hexLocals, events, result, counters, badSync>>

\* reader.read() resolves with done: the stream has ended
ReadDone ==
  /\ pc = "awaitRead"
  /\ readable \in {"open", "closed"}
  /\ readable' = "closed"
  /\ Throw(TimeoutError(Len(response)))
  /\ MarkLast("fail")
  /\ UNCHANGED <<signals, phase, inputs, handles, writable, syncAttempts, readLocals,
                 hexLocals, events, result, counters, badSync>>

\* reader.read() rejects: the stream is errored
ReadReject ==
  /\ pc = "awaitRead"
  /\ readable \in {"open", "errored"}
  /\ readable' = "errored"
  /\ Throw("read failed")
  /\ MarkLast("fail")
  /\ UNCHANGED <<signals, phase, inputs, handles, writable, syncAttempts, readLocals,
                 hexLocals, events, result, counters, badSync>>

\* the 5 seconds of the current readResponse elapse
Tick ==
  /\ pc = "awaitRead"
  /\ ~expired
  /\ expired' = TRUE
  /\ UNCHANGED <<signals, pc, phase, inputs, handles, readable, writable, syncAttempts,
                 response, hexLocals, written, events, error, result, counters,
                 badSync>>

\* the bootloader stops sending: the stream stays open and delivers nothing
GoSilent ==
  /\ pc = "awaitRead"
  /\ readable = "open"
  /\ readable' = "silent"
  /\ UNCHANGED <<signals, pc, phase, inputs, handles, writable, syncAttempts, readLocals,
                 hexLocals, written, events, error, result, counters, badSync>>

\* ---- uploadHexData ----
UploadHexData ==
  /\ pc = "uploadHexData"
  /\ events' = Append(events, Event("uploading", 30, 1))
  /\ hexLines' = FilterLines(hexData)
  /\ i' = 0
  /\ pc' = "uploadLoop"
  /\ UNCHANGED <<signals, phase, inputs, handles, readable, writable, syncAttempts,
                 readLocals, recAddress, recData, written, error, result,
                 counters, badSync>>

\* variant: the share of the lines done is scaled to 100 instead of 50
UploadProgressFullScale(index, count) ==
  Event("uploading", 30 * count + index * 100, count)

\* 30 + (i / hexLines.length) * 50
UploadProgress(index, count) ==
  Event("uploading", 30 * count + index * 50, count)

\* the sum of the bytes of a string of hex digit pairs
RECURSIVE PairSum(_)
PairSum(str) ==
  IF Len(str) < 2 THEN 0
  ELSE ToUint8(ParseInt16(SubSeq(str, 1, 2))) + PairSum(SubSeq(str, 3, Len(str)))

\* variant: a record whose bytes do not sum to 0 modulo 256 is rejected
UploadLineChecked ==
  /\ pc = "uploadLoop"
  /\ IF i >= Len(hexLines)
       THEN /\ pc' = "verifyUpload"
            /\ UNCHANGED <<events, i, recAddress, recData, phase, error>>
       ELSE LET line == hexLines[i + 1] IN
            /\ events' = Append(events, UploadProgress(i, Len(hexLines)))
            /\ IF Len(line) >= MinRecordLen /\ PairSum(Tail(line)) % 256 # 0
                 THEN /\ Throw("Checksum mismatch")
                      /\ UNCHANGED <<i, recAddress, recData, phase>>
                 ELSE IF IsDataRecord(line)
                   THEN /\ recAddress' = recordAddressOf(line)
                        /\ recData' = dataOf(line)
                        /\ phase' = "load"
                        /\ pc' = "loadSend"
                        /\ UNCHANGED <<i, error>>
                   ELSE /\ i' = i + 1
                        /\ UNCHANGED <<pc, recAddress, recData, phase, error>>
  /\ UNCHANGED <<signals, inputs, handles, readable, writable, syncAttempts, readLocals,
                 hexLines, written, result, counters, badSync>>

\* the content of the last type-04 record among the first n lines, 0 if none
ExtendedBase(lines, n) ==
  LET ks == {k \in 1..n : Len(lines[k]) >= MinRecordLen /\ recordTypeOf(lines[k]) = 4}
  IN IF ks = {} THEN 0
     ELSE ParseInt16(Substr(lines[CHOOSE k \in ks : \A j \in ks : j <= k], 9, 4))

\* variant: the last type-04 record is taken as a base added to the address
UploadLineExtended ==
  /\ pc = "uploadLoop"
  /\ IF i >= Len(hexLines)
       THEN /\ pc' = "verifyUpload"
            /\ UNCHANGED <<events, i, recAddress, recData, phase>>
       ELSE LET line == hexLines[i + 1] IN
            /\ events' = Append(events, UploadProgress(i, Len(hexLines)))
            /\ IF IsDataRecord(line)
                 THEN /\ recAddress' = recordAddressOf(line) + 16 * ExtendedBase(hexLines, i)
                      /\ recData' = dataOf(line)
                      /\ phase' = "load"
                      /\ pc' = "loadSend"
                      /\ UNCHANGED i
                 ELSE /\ i' = i + 1
                      /\ UNCHANGED <<pc, recAddress, recData, phase>>
  /\ UNCHANGED <<signals, inputs, handles, readable, writable, syncAttempts, readLocals,
                 hexLines, written, error, result, counters, badSync>>

\* one turn of the for loop, up to the call of writePage
UploadLine ==
  /\ pc = "uploadLoop"
  /\ IF i >= Len(hexLines)
       THEN /\ pc' = "verifyUpload"
            /\ UNCHANGED <<events, i, recAddress, recData, phase>>
       ELSE LET line == hexLines[i + 1] IN
            /\ events' = Append(events, UploadProgress(i, Len(hexLines)))
            /\ IF IsDataRecord(line)
                 THEN /\ recAddress' = recordAddressOf(line)
                      /\ recData' = dataOf(line)
                      /\ phase' = "load"
                      /\ pc' = "loadSend"
                      /\ UNCHANGED i
                 ELSE /\ i' = i + 1
                      /\ UNCHANGED <<pc, recAddress, recData, phase>>
  /\ UNCHANGED <<signals, inputs, handles, readable, writable, syncAttempts, readLocals,
                 hexLines, written, error, result, counters, badSync>>

\* ---- writePage ----
\* variant: the page command follows without reading the load-address response
LoadSendPipelined ==
  /\ pc = "loadSend"
  /\ writer = "held"
  /\ writable = "open"
  /\ written' = Append(written, [cmd |-> LoadAddressCommand(recAddress),
                                 res |-> "none", line |-> i + 1])
  /\ phase' = "page"
  /\ pc' = "pageSend"
  /\ UNCHANGED <<signals, inputs, handles, readable, writable, syncAttempts,
                 readLocals, hexLocals, events, error, result, counters, badSync>>

LoadSend ==
  /\ pc = "loadSend"
  /\ SendCommand(LoadAddressCommand(recAddress), i + 1)
  /\ UNCHANGED <<signals, phase, inputs, handles, readable, syncAttempts, readLocals,
                 hexLocals, events, result, counters, badSync>>

LoadCheck ==
  /\ phase = "load"
  /\ CheckOrThrow("pageSend", "Failed to set address")
  /\ phase' = "page"
  /\ UNCHANGED <<signals, inputs, handles, readable, writable, syncAttempts, expired,
                 hexLocals, events, result, counters, badSync>>

PageSend ==
  /\ pc = "pageSend"
  /\ SendCommand(ProgPageCommand(recData), i + 1)
  /\ UNCHANGED <<signals, phase, inputs, handles, readable, syncAttempts, readLocals,
                 hexLocals, events, result, counters, badSync>>

\* variant: a page that was not acknowledged is written again
PageCheckRetry ==
  /\ pc = "check"
  /\ phase = "page"
  /\ IF IsOk(response)
       THEN /\ MarkLast("ok")
            /\ pc' = "uploadLoop"
            /\ i' = i + 1
            /\ UNCHANGED phase
       ELSE /\ MarkLast("bad")
            /\ pc' = "loadSend"
            /\ phase' = "load"
            /\ UNCHANGED i
  /\ response' = <<>>
  /\ UNCHANGED <<signals, inputs, handles, readable, writable, syncAttempts,
                 expired, hexLines, recAddress, recData, events, error, result,
                 counters, badSync>>

PageCheck ==
  /\ phase = "page"
  /\ CheckOrThrow("uploadLoop", "Failed to write page")
  /\ i' = IF IsOk(response) THEN i + 1 ELSE i
  /\ UNCHANGED <<signals, phase, inputs, handles, readable, writable, syncAttempts,
                 expired, hexLines, recAddress, recData, events, result,
                 counters, badSync>>

\* ---- verifyUpload ----
\* variant: the flash is read back with READ_PAGE before the second event
VerifyUploadReadBack ==
  /\ pc = "verifyUpload"
  /\ events' = Append(events, Event("verifying", 85, 1))
  /\ phase' = "leave"
  /\ SendCommand(<<STK_READ_PAGE, 0, 1, FLASH_MEMTYPE, STK_CRC_EOP>>, 0)
  /\ UNCHANGED <<signals, inputs, handles, readable, syncAttempts, readLocals,
                 hexLocals, result, counters, badSync>>

VerifyUpload ==
  /\ pc = "verifyUpload"
  /\ events' = events \o <<Event("verifying", 85, 1), Event("verifying", 95, 1)>>
  /\ phase' = "leave"
  /\ pc' = "leaveSend"
  /\ UNCHANGED <<signals, inputs, handles, readable, writable, syncAttempts, readLocals,
                 hexLocals, written, error, result, counters, badSync>>

\* ---- leaveProgrammingMode ----
LeaveSend ==
  /\ pc = "leaveSend"
  /\ SendCommand(LeaveCommand, 0)
  /\ UNCHANGED <<signals, phase, inputs, handles, readable, syncAttempts, readLocals,
                 hexLocals, events, result, counters, badSync>>

\* variant: the answer to LEAVE_PROGMODE is read and not tested
LeaveCheckLenient ==
  /\ phase = "leave"
  /\ pc = "check"
  /\ MarkLast(IF IsOk(response) THEN "ok" ELSE "bad")
  /\ pc' = "complete"
  /\ response' = <<>>
  /\ UNCHANGED <<signals, phase, inputs, handles, readable, writable, syncAttempts,
                 expired, hexLocals, events, error, result, counters, badSync>>

LeaveCheck ==
  /\ phase = "leave"
  /\ CheckOrThrow("complete", "Failed to leave programming mode")
  /\ UNCHANGED <<signals, phase, inputs, handles, readable, writable, syncAttempts,
                 expired, hexLocals, events, result, counters, badSync>>

\* ---- uploadSketch: the end of the try block, the catch and the finally ----
Complete ==
  /\ pc = "complete"
  /\ events' = Append(events, Event("complete", 100, 1))
  /\ result' = "true"
  /\ pc' = "cleanup"
  /\ UNCHANGED <<signals, phase, inputs, handles, readable, writable, syncAttempts,
                 readLocals, hexLocals, written, error, counters, badSync>>

\* variant: the catch returns without the finally block
CatchReturn ==
  /\ pc = "catch"
  /\ events' = Append(events, [Event("error", 0, 1) EXCEPT !.msg = error])
  /\ result' = "false"
  /\ response' = <<>>
  /\ pc' = "done"
  /\ UNCHANGED <<signals, phase, inputs, handles, readable, writable, syncAttempts,
                 expired, hexLocals, written, error, counters, badSync>>

Catch ==
  /\ pc = "catch"
  /\ events' = Append(events, [Event("error", 0, 1) EXCEPT !.msg = error])
  /\ result' = "false"
  /\ response' = <<>>
  /\ pc' = "cleanup"
  /\ UNCHANGED <<signals, phase, inputs, handles, readable, writable, syncAttempts,
                 expired, hexLocals, written, error, counters, badSync>>

\* variant: cleanup has no catch, and a rejected cancel() rejects uploadSketch
CleanupReaderUncaught ==
  /\ pc = "cleanup"
  /\ cleanupRuns' = cleanupRuns + 1
  /\ IF reader = "held"
       THEN /\ cancelCalls' = cancelCalls + 1
            /\ \/ /\ readable # "errored"
                  /\ readable' = "closed"
                  /\ reader' = "null"
                  /\ pc' = "cleanupWriter"
                  /\ UNCHANGED result
               \/ /\ readable = "errored"
                  /\ pc' = "done"
                  /\ result' = "rejected"
                  /\ UNCHANGED <<reader, readable>>
       ELSE /\ pc' = "cleanupWriter"
            /\ UNCHANGED <<cancelCalls, reader, readable, result>>
  /\ UNCHANGED <<signals, phase, inputs, writer, writable, syncAttempts, readLocals,
                 hexLocals, written, events, error, closeCalls, badSync>>

\* cleanup, up to the end of the await of reader.cancel(); cancel() rejects on
\* an errored stream, and the catch of cleanup then ends it
CleanupReader ==
  /\ pc = "cleanup"
  /\ cleanupRuns' = cleanupRuns + 1
  /\ IF reader = "held"
       THEN /\ cancelCalls' = cancelCalls + 1
            /\ \/ /\ readable # "errored"
                  /\ readable' = "closed"
                  /\ reader' = "null"
                  /\ pc' = "cleanupWriter"
               \/ /\ readable = "errored"
                  /\ pc' = "done"
                  /\ UNCHANGED <<reader, readable>>
       ELSE /\ pc' = "cleanupWriter"
            /\ UNCHANGED <<cancelCalls, reader, readable>>
  /\ UNCHANGED <<signals, phase, inputs, writer, writable, syncAttempts, readLocals,
                 hexLocals, written, events, error, result, closeCalls, badSync>>

\* cleanup, from the test of this.writer on; close() rejects on an errored stream
CleanupWriter ==
  /\ pc = "cleanupWriter"
  /\ IF writer = "held"
       THEN /\ closeCalls' = closeCalls + 1
            /\ \/ /\ writable = "open"
                  /\ writable' = "closed"
                  /\ writer' = "null"
               \/ /\ writable = "errored"
                  /\ UNCHANGED <<writer, writable>>
       ELSE UNCHANGED <<closeCalls, writer, writable>>
  /\ pc' = "done"
  /\ UNCHANGED <<signals, phase, inputs, reader, readable, syncAttempts, readLocals,
                 hexLocals, written, events, error, result, cancelCalls,
                 cleanupRuns, badSync>>

Next ==
  \/ ResetArduino
  \/ InitializeConnection
  \/ EnterProgrammingMode
  \/ SyncSend
  \/ SyncCheck
  \/ SyncCatch
  \/ Synced
  \/ EnterSend
  \/ EnterCheck
  \/ ReadResponse
  \/ ReadChunk
  \/ ReadDone
  \/ ReadReject
  \/ Tick
  \/ GoSilent
  \/ UploadHexData
  \/ UploadLine
  \/ LoadSend
  \/ LoadCheck
  \/ PageSend
  \/ PageCheck
  \/ VerifyUpload
  \/ LeaveSend
  \/ LeaveCheck
  \/ Complete
  \/ Catch
  \/ CleanupReader
  \/ CleanupWriter

Spec == Init /\ [][Next]_vars

TypeOK ==
  /\ pc \in {"start", "acquireStreams", "enterProgrammingMode", "syncLoop", "syncCatch", "synced",
             "enterSend", "readResponse", "awaitRead", "check", "uploadHexData",
             "uploadLoop", "loadSend", "pageSend", "verifyUpload", "leaveSend",
             "complete", "catch", "cleanup", "cleanupWriter", "done"}
  /\ syncAttempts \in 0..maxSyncAttempts
  /\ Len(response) <= expectedLength

\* every step of the uploader itself, a resolved read() included
Uploader ==
  \/ ResetArduino \/ InitializeConnection \/ EnterProgrammingMode
  \/ SyncSend \/ SyncCheck \/ SyncCatch \/ Synced \/ EnterSend \/ EnterCheck
  \/ ReadResponse \/ ReadChunk \/ ReadDone \/ ReadReject
  \/ UploadHexData \/ UploadLine \/ LoadSend \/ LoadCheck \/ PageSend
  \/ PageCheck \/ VerifyUpload \/ LeaveSend \/ LeaveCheck
  \/ Complete \/ Catch \/ CleanupReader \/ CleanupWriter

\* the event loop runs every continuation that is ready, and time passes
FairSpec == Spec /\ WF_vars(Uploader) /\ WF_vars(Tick)

\* ---- the run on a port that has both streams and a bootloader that ----
\* ---- answers every command (INSYNC, OK), for every hex text         ----
InitHex ==
  /\ pc = "start"
  /\ phase = "init"
  /\ hexData \in WideHexTexts
  /\ rdCap = "free"
  /\ wrCap = "free"
  /\ sigCap = "present"
  /\ signals = <<>>
  /\ reader = "null"
  /\ writer = "null"
  /\ readable = "open"
  /\ writable = "open"
  /\ syncAttempts = 0
  /\ response = <<>>
  /\ expired = FALSE
  /\ hexLines = <<>>
  /\ i = 0
  /\ recAddress = 0
  /\ recData = <<>>
  /\ written = <<>>
  /\ events = <<>>
  /\ error = "none"
  /\ result = "none"
  /\ cancelCalls = 0
  /\ closeCalls = 0
  /\ cleanupRuns = 0
  /\ badSync = 0
  /\ opened = DefaultBaud
  /\ baudRate = DefaultBaud
  /\ cancelRequested = FALSE
  /\ SessionIdle
  /\ ExtraIdle

ResetDone == ResetArduino /\ signals' = ResetSequence
SyncSendOk == SyncSend /\ pc' = "readResponse"
EnterSendOk == EnterSend /\ pc' = "readResponse"
LoadSendOk == LoadSend /\ pc' = "readResponse"
PageSendOk == PageSend /\ pc' = "readResponse"
LeaveSendOk == LeaveSend /\ pc' = "readResponse"
ReadOk == ReadChunk /\ pc' = "check" /\ response' = <<STK_INSYNC, STK_OK>>

NextHex ==
  \/ ResetDone
  \/ InitializeConnection
  \/ EnterProgrammingMode
  \/ SyncSendOk
  \/ SyncCheck
  \/ Synced
  \/ EnterSendOk
  \/ EnterCheck
  \/ ReadResponse
  \/ ReadOk
  \/ UploadHexData
  \/ UploadLine
  \/ LoadSendOk
  \/ LoadCheck
  \/ PageSendOk
  \/ PageCheck
  \/ VerifyUpload
  \/ LeaveSendOk
  \/ LeaveCheck
  \/ Complete
  \/ CleanupReader
  \/ CleanupWriter

HexSpec == InitHex /\ [][NextHex]_vars

\* ---- vocabulary of the properties ----
Opcode(p) == written[p].cmd[1]
IsSync(p) == written[p].cmd = SyncCommand
IsEnter(p) == written[p].cmd = EnterCommand
IsLeave(p) == written[p].cmd = LeaveCommand
IsLoad(p) == Opcode(p) = STK_LOAD_ADDRESS
IsPage(p) == Opcode(p) = STK_PROG_PAGE
Positions == 1..Len(written)
SyncCount == Cardinality({p \in Positions : IsSync(p)})
Failed(p) == written[p].res \in {"bad", "fail", "noreader"}
Acquired == rdCap = "free" /\ wrCap = "free"
Returned == pc = "done"
DataLines == {n \in 1..Len(FilterLines(hexData)) : IsDataRecord(FilterLines(hexData)[n])}
Emitted(stage) == \E n \in 1..Len(events) : events[n].stage = stage

\* C1: a run that acquired a reader and a writer has, when it returns, run
\* cleanup exactly once, closed the writer exactly once and cancelled the
\* reader exactly once, whatever the stage at which it failed.
C1_CleanupExactlyOnce ==
  (Returned /\ Acquired) =>
     (cleanupRuns = 1 /\ closeCalls = 1 /\ cancelCalls = 1)

\* C2: when uploadSketch returns, every handle the run acquired is released:
\* both fields are null, also when a release step itself failed.
C2_NoHandleLeak ==
  Returned => (reader = "null" /\ writer = "null")

\* C3: while no sync command has been answered (INSYNC, OK), the run sends
\* at most 10 sync commands, whatever the kind of the failed attempts.
C3_SyncBounded ==
  SyncCount <= maxSyncAttempts

\* C4: for k in 1..10, when the k-th sync command is answered (INSYNC, OK)
\* after k-1 failed attempts, the sync phase ends there: exactly k sync
\* commands are written, 'syncing' is emitted and the next command is
\* ENTER_PROGMODE; and the run does not give up syncing while fewer than 10
\* sync commands were written on a usable writer.
C4_SyncSucceedsAtK ==
  /\ \A k \in Positions :
       (k <= maxSyncAttempts /\ IsSync(k) /\ written[k].res = "ok") =>
          /\ SyncCount = k
          /\ \A j \in 1..(k - 1) : IsSync(j) /\ Failed(j)
          /\ pc = "synced" \/ (Emitted("syncing") /\ phase # "sync")
          /\ Len(written) > k => IsEnter(k + 1)
  /\ (phase = "sync" /\ pc = "catch" /\ writer = "held" /\ writable = "open")
        => SyncCount >= maxSyncAttempts

C4_Witness ==
  /\ Len(written) > maxSyncAttempts
  /\ IsSync(maxSyncAttempts) /\ written[maxSyncAttempts].res = "ok"
  /\ IsEnter(maxSyncAttempts + 1)
  /\ Emitted("syncing")

\* C5: a read that got fewer than 2 bytes from a bootloader that then stays
\* silent ends with the timeout error, and the run reaches its end.
C5_ReadTerminates ==
  /\ (pc = "awaitRead" /\ readable = "silent")
        ~> (pc # "awaitRead" /\ error = TimeoutError(Len(response)))
  /\ (pc = "awaitRead" /\ readable = "silent") ~> Returned

\* C6: ENTER_PROGMODE is written only after a sync command answered OK;
\* LOAD_ADDRESS and PROG_PAGE only after ENTER_PROGMODE answered OK;
\* LEAVE_PROGMODE only after every page write of the run answered OK;
\* nothing is written after LEAVE_PROGMODE.
C6_ProtocolOrder ==
  \A p \in Positions :
    /\ IsEnter(p) => \E q \in 1..(p - 1) : IsSync(q) /\ written[q].res = "ok"
    /\ (IsLoad(p) \/ IsPage(p)) =>
          \E q \in 1..(p - 1) : IsEnter(q) /\ written[q].res = "ok"
    /\ IsLeave(p) =>
          /\ \A q \in 1..(p - 1) : IsPage(q) => written[q].res = "ok"
          /\ {written[q].line : q \in {r \in 1..(p - 1) : IsPage(r)}} = DataLines
          /\ p = Len(written)

C6_Witness ==
  /\ Len(written) > 0
  /\ IsLeave(Len(written))
  /\ Cardinality({q \in Positions : IsPage(q)}) = 2

\* C7: at most one command is outstanding: every command but the last one
\* written has had its response read completely or its read declared failed.
C7_OneOutstanding ==
  \A p \in 1..(Len(written) - 1) :
     written[p].res \in {"ok", "bad", "fail", "noreader"}

C7_Witness ==
  /\ Len(written) >= 3
  /\ written[1].res = "fail"
  /\ written[2].res = "bad"
  /\ written[Len(written)].res = "none"

\* C8: every PROG_PAGE is immediately preceded by exactly one LOAD_ADDRESS
\* with the address of the record whose data the page carries, answered OK;
\* a LOAD_ADDRESS answered otherwise is followed by no PROG_PAGE.
C8_AddressBeforePage ==
  \A p \in Positions :
    /\ IsPage(p) =>
         LET line == FilterLines(hexData)[written[p].line] IN
         /\ p > 1
         /\ SubSeq(written[p].cmd, 5, Len(written[p].cmd) - 1) = dataOf(line)
         /\ written[p - 1].cmd =
              <<STK_LOAD_ADDRESS, recordAddressOf(line) % 256,
                (recordAddressOf(line) \div 256) % 256, STK_CRC_EOP>>
         /\ written[p - 1].res = "ok"
         /\ p > 2 => ~IsLoad(p - 2)
    /\ (IsLoad(p) /\ Failed(p)) => \A q \in (p + 1)..Len(written) : ~IsPage(q)

C8_Witness ==
  \E p \in Positions :
    /\ IsPage(p) /\ written[p].res = "ok"
    /\ written[p - 1].cmd = <<STK_LOAD_ADDRESS, 0, 1, STK_CRC_EOP>>

\* a failure that ends the run: the sync attempts are exhausted, or a command
\* other than sync got a non-OK answer or a failed read
Fatal ==
  \/ syncAttempts >= maxSyncAttempts
  \/ \E p \in Positions : ~IsSync(p) /\ Failed(p)

\* C9: after the first fatal failure of a run nothing more is written to the
\* transport: no retry of the page, no later record, no LEAVE_PROGMODE.
C9_FailureHalts ==
  [][Fatal => written' = written]_vars

C9_Witness ==
  /\ Returned
  /\ \E p \in Positions : IsPage(p) /\ written[p].res = "bad" /\ p = Len(written)
  /\ Cardinality(DataLines) = 2

\* C10: the run returns true or emits 'complete' only if the last sync
\* command, ENTER_PROGMODE, every LOAD_ADDRESS and PROG_PAGE, and
\* LEAVE_PROGMODE were each answered exactly (INSYNC, OK).
C10_NoBestEffortSuccess ==
  (result = "true" \/ Emitted("complete")) =>
     /\ \E p \in Positions :
          /\ IsSync(p) /\ written[p].res = "ok"
          /\ \A q \in (p + 1)..Len(written) : ~IsSync(q)
     /\ \E p \in Positions : IsEnter(p)
     /\ \E p \in Positions : IsLeave(p)
     /\ \A p \in Positions : ~IsSync(p) => written[p].res = "ok"

C10_Witness ==
  /\ Returned /\ result = "true" /\ Emitted("complete")
  /\ \E p \in Positions : IsSync(p) /\ written[p].res = "bad"
  /\ \E p \in Positions : IsPage(p)

\* C11: ENTER_PROGMODE and LEAVE_PROGMODE are each written at most once in a
\* run, and a non-OK 2-byte answer to either ends the run with an 'error'
\* event and the result false, never with 'complete'.
C11_SingleExchange ==
  /\ Cardinality({p \in Positions : IsEnter(p)}) <= 1
  /\ Cardinality({p \in Positions : IsLeave(p)}) <= 1
  /\ \A p \in Positions :
       ((IsEnter(p) \/ IsLeave(p)) /\ written[p].res = "bad") =>
          /\ ~Emitted("complete")
          /\ result # "true"
          /\ Returned => (result = "false" /\ Emitted("error"))

C11_Witness ==
  /\ Returned
  /\ \E p \in Positions : IsLeave(p) /\ written[p].res = "bad"
  /\ \E p \in Positions : IsPage(p) /\ written[p].res = "ok"

\* the run has failed: it is in the catch of uploadSketch or past it
Halted == pc \in {"catch", "cleanup", "cleanupWriter", "done"}

\* C12 as stated: for every command, sync included, a complete response whose
\* first byte is not INSYNC makes the upload fail at once.
C12_FramingErrorFatal ==
  [][(pc = "check" /\ response[1] # STK_INSYNC) => pc' = "catch"]_vars

\* C12 as amended: for every command other than sync, a complete response
\* whose first byte is not INSYNC makes the upload fail at once and nothing
\* more is written; in the sync loop such a response is a failed attempt and
\* the loop sends the sync command again.
C12_FramingErrorFatalAfterSync ==
  [][/\ (pc = "check" /\ phase # "sync" /\ response[1] # STK_INSYNC)
          => (pc' = "catch" /\ error' # "none")
     /\ (pc = "check" /\ phase = "sync" /\ response[1] # STK_INSYNC)
          => pc' = "syncLoop"
     /\ Halted => (Halted' /\ [p \in Positions |-> written[p].cmd]
                                = [p \in 1..Len(written') |-> written'[p].cmd])]_vars

C12_Witness ==
  /\ pc = "check"
  /\ phase = "page"
  /\ response[1] # STK_INSYNC

\* ---- the hex text as the Intel-HEX format reads it ----
RecordLines(text) == SelectSeq(text, LAMBDA l : l # <<>> /\ l[1] = ":")
AllHex(str) == \A k \in 1..Len(str) : HexVal(str[k]) # NaN

RECURSIVE HexValue(_)
HexValue(str) ==
  IF str = <<>> THEN 0
  ELSE HexValue(SubSeq(str, 1, Len(str) - 1)) * 16 + HexVal(str[Len(str)])

HeaderValid(line) == Len(line) >= 9 /\ AllHex(SubSeq(line, 2, 9))
DeclaredCount(line) == HexValue(SubSeq(line, 2, 3))
AddressField(line) == HexValue(SubSeq(line, 4, 7))
TypeField(line) == HexValue(SubSeq(line, 8, 9))
DataChars(line) == SubSeq(line, 10, 9 + 2 * DeclaredCount(line))
DataPresent(line) ==
  /\ HeaderValid(line)
  /\ Len(line) >= 9 + 2 * DeclaredCount(line)
  /\ AllHex(DataChars(line))
RecordBytes(line) ==
  [j \in 1..DeclaredCount(line) |-> HexValue(SubSeq(line, 8 + 2 * j, 9 + 2 * j))]
WellFormedLine(line) ==
  /\ HeaderValid(line)
  /\ AllHex(Tail(line))
  /\ Len(line) = 11 + 2 * DeclaredCount(line)
Malformed(line) == ~WellFormedLine(line)
NonEmptyData(line) ==
  HeaderValid(line) /\ TypeField(line) = 0 /\ DeclaredCount(line) > 0
WellFormedText == \A n \in 1..Len(RecordLines(hexData)) : WellFormedLine(RecordLines(hexData)[n])
MalformedText == \E n \in 1..Len(RecordLines(hexData)) : Malformed(RecordLines(hexData)[n])
SourceLine(p) == RecordLines(hexData)[written[p].line]
Payload(p) == SubSeq(written[p].cmd, 5, Len(written[p].cmd) - 1)

ExpectedLoad(line) ==
  <<STK_LOAD_ADDRESS, AddressField(line) % 256, (AddressField(line) \div 256) % 256,
    STK_CRC_EOP>>
ExpectedPage(line) ==
  <<STK_PROG_PAGE, DeclaredCount(line) \div 256, DeclaredCount(line) % 256, FLASH_MEMTYPE>>
    \o RecordBytes(line) \o <<STK_CRC_EOP>>

RECURSIVE ExpectedCommands(_)
ExpectedCommands(lines) ==
  IF lines = <<>> THEN <<>>
  ELSE (IF NonEmptyData(Head(lines))
          THEN <<ExpectedLoad(Head(lines)), ExpectedPage(Head(lines))>>
          ELSE <<>>) \o ExpectedCommands(Tail(lines))

FlashCommands ==
  LET ps == SelectSeq(written, LAMBDA w : w.cmd[1] \in {STK_LOAD_ADDRESS, STK_PROG_PAGE})
  IN [k \in 1..Len(ps) |-> ps[k].cmd]

LastEvent == events[Len(events)]

\* C13: with a bootloader that answers every command (INSYNC, OK) and a
\* well-formed hex text, the run writes exactly one LOAD_ADDRESS / PROG_PAGE
\* pair per data record with a non-zero byte count, with that record's address
\* and bytes, in order, none for any other record, and ends with 'complete'
\* at 100 and the result true.
C13_OnePairPerDataRecord ==
  (Returned /\ WellFormedText) =>
     /\ FlashCommands = ExpectedCommands(RecordLines(hexData))
     /\ result = "true"
     /\ LastEvent.stage = "complete"
     /\ LastEvent.num = 100 /\ LastEvent.den = 1

C13_Witness ==
  /\ Returned
  /\ hexData = <<ExtAddrRec, DataRec2, EofRec>>
  /\ Len(FlashCommands) = 2

\* a.num / a.den <= b.num / b.den
AtMost(a, b) == a.num * b.den <= b.num * a.den

\* C14: the progress values of a successful run never decrease, lie in
\* 0..100, lie in 30..80 for 'uploading', and the last one is 100.
C14_ProgressMonotone ==
  /\ \A n \in 1..(Len(events) - 1) : AtMost(events[n], events[n + 1])
  /\ \A n \in 1..Len(events) :
       /\ 0 <= events[n].num /\ events[n].num <= 100 * events[n].den
       /\ events[n].stage = "uploading" =>
            (30 * events[n].den <= events[n].num /\ events[n].num <= 80 * events[n].den)
  /\ (Returned /\ result = "true") => (LastEvent.num = 100 /\ LastEvent.den = 1)

C14_Witness ==
  /\ Returned /\ result = "true"
  /\ hexData = <<DataRec1, DataRec1, DataRec2>>
  /\ \E n \in 1..Len(events) : events[n].num = 190 /\ events[n].den = 3

RECURSIVE ExpectedAddresses(_)
ExpectedAddresses(lines) ==
  IF lines = <<>> THEN <<>>
  ELSE (IF NonEmptyData(Head(lines))
          THEN <<<<AddressField(Head(lines)) % 256, (AddressField(Head(lines)) \div 256) % 256>>>>
          ELSE <<>>) \o ExpectedAddresses(Tail(lines))

LoadAddresses ==
  LET ps == SelectSeq(written, LAMBDA w : w.cmd[1] = STK_LOAD_ADDRESS)
  IN [k \in 1..Len(ps) |-> <<ps[k].cmd[2], ps[k].cmd[3]>>]

\* C15: the addresses of the LOAD_ADDRESS commands of a run are the addresses
\* of the non-empty data records in the order of the hex text, also when they
\* descend or repeat: a prefix of them during the run, all of them at its end.
C15_FileOrder ==
  LET expected == ExpectedAddresses(RecordLines(hexData)) IN
  /\ Len(LoadAddresses) <= Len(expected)
  /\ LoadAddresses = SubSeq(expected, 1, Len(LoadAddresses))
  /\ (Returned /\ result = "true") => LoadAddresses = expected

C15_Witness ==
  /\ Returned
  /\ hexData = <<DataRec2, DataRec1, DataRec2>>
  /\ LoadAddresses = << <<0, 1>>, <<0, 0>>, <<0, 1>> >>

\* C16: a record line with an invalid hex digit, or whose declared byte count
\* differs from the data bytes present, makes the upload fail, and no
\* PROG_PAGE is built from such a line.
C16_MalformedRecordFails ==
  /\ \A p \in Positions : IsPage(p) => WellFormedLine(SourceLine(p))
  /\ (Returned /\ MalformedText) => result = "false"

\* C17: when the hex text holds a malformed record anywhere, the run writes
\* no LOAD_ADDRESS and no PROG_PAGE at all.
C17_NoWriteAfterParseFailure ==
  MalformedText => \A p \in Positions : ~IsLoad(p) /\ ~IsPage(p)

C19_LoadAddressForm ==
  \A p \in Positions : IsLoad(p) =>
    /\ HeaderValid(SourceLine(p))
    /\ written[p].cmd = ExpectedLoad(SourceLine(p))

C19_Witness ==
  \E p \in Positions :
    /\ IsLoad(p) /\ written[p].res = "ok"
    /\ written[p].cmd = <<STK_LOAD_ADDRESS, 164, 18, STK_CRC_EOP>>

\* ---- two overlapping calls of uploadSketch on the one uploader ----
\* Each action is the code run between two awaits of call r. The port has
\* both streams, the hex text has one data record, and a response is either
\* (INSYNC, OK) or a failed read.
SetCall(r, pcv, cmdv, attempts, res) ==
  call' = [call EXCEPT ![r] =
             [pc |-> pcv, cmd |-> cmdv, syncAttempts |-> attempts, result |-> res]]

Cancelled(h) == \E x \in released : x.kind = "cancel" /\ x.handle = h
Closed(h) == \E x \in released : x.kind = "close" /\ x.handle = h

\* cleanup from the test of this.writer on, up to the await of close();
\* close() on a writer that is closed already rejects and cleanup ends
U_CloseWriter(r, res, wr, rel, lk) ==
  IF wr = NoHandle
    THEN /\ SetCall(r, "done", call[r].cmd, call[r].syncAttempts, res)
         /\ released' = rel
         /\ lock' = lk
    ELSE /\ released' = rel \cup {[kind |-> "close", handle |-> wr, by |-> r]}
         /\ IF Closed(wr)
              THEN /\ SetCall(r, "done", call[r].cmd, call[r].syncAttempts, res)
                   /\ lock' = lk
              ELSE /\ SetCall(r, "afterClose", call[r].cmd, call[r].syncAttempts, res)
                   /\ lock' = [lk EXCEPT ![wr.port].writable = 0]

\* the end of the try block or the catch, then cleanup up to its first await;
\* rd, wr and lk are this.reader, this.writer and the locks at that moment
U_StartCleanup(r, res, rd, wr, lk) ==
  IF rd # NoHandle
    THEN /\ released' = released \cup {[kind |-> "cancel", handle |-> rd, by |-> r]}
         /\ lock' = [lk EXCEPT ![rd.port].readable = 0]
         /\ SetCall(r, "afterCancel", call[r].cmd, call[r].syncAttempts, res)
    ELSE U_CloseWriter(r, res, wr, released, lk)

\* a throw inside the exchange of command call[r].cmd
U_Throw(r) ==
  IF call[r].cmd = 1 /\ call[r].syncAttempts + 1 < maxSyncAttempts
    THEN /\ SetCall(r, "send", 1, call[r].syncAttempts + 1, "none")
         /\ UNCHANGED <<released, lock>>
    ELSE U_StartCleanup(r, "false", thisReader, thisWriter, lock)

\* uploadSketch is called: this.port = port; the second call is made while
\* the first is in progress, on the same port or on another one
U_Call(r) ==
  /\ call[r].pc = "idle"
  /\ r = 2 => call[1].pc \notin {"idle", "done"}
  /\ \E p \in Ports :
       /\ r = 1 => p = 1
       /\ thisPort' = p
  /\ SetCall(r, "reset", 1, 0, "none")
  /\ UNCHANGED <<single, extra, thisReader, thisWriter, lock, wire, released>>

\* resetArduino and the 2 s delay
U_Reset(r) ==
  /\ call[r].pc = "reset"
  /\ SetCall(r, "acquire", 1, 0, "none")
  /\ UNCHANGED <<single, extra, thisPort, thisReader, thisWriter, lock, wire, released>>

\* this.port.readable.getReader() and this.port.writable.getWriter();
\* each throws when the stream is locked
U_Acquire(r) ==
  /\ call[r].pc = "acquire"
  /\ LET p == thisPort
         rd == [port |-> p, owner |-> r]
         wr == [port |-> p, owner |-> r]
     IN IF lock[p].readable # 0
          THEN /\ U_StartCleanup(r, "false", thisReader, thisWriter, lock)
               /\ UNCHANGED <<thisReader, thisWriter>>
          ELSE IF lock[p].writable # 0
            THEN /\ thisReader' = rd
                 /\ U_StartCleanup(r, "false", rd, thisWriter,
                                   [lock EXCEPT ![p].readable = r])
                 /\ UNCHANGED thisWriter
            ELSE /\ thisReader' = rd
                 /\ thisWriter' = wr
                 /\ lock' = [lock EXCEPT ![p] = [readable |-> r, writable |-> r]]
                 /\ SetCall(r, "send", 1, 0, "none")
                 /\ UNCHANGED released
  /\ UNCHANGED <<single, extra, thisPort, wire>>

\* sendCommand: this.writer.write(command)
U_Send(r) ==
  /\ call[r].pc = "send"
  /\ IF thisWriter = NoHandle \/ Closed(thisWriter)
       THEN U_Throw(r) /\ UNCHANGED wire
       ELSE /\ wire' = [wire EXCEPT ![thisWriter.port] =
                          @ \cup {[by |-> r, cmd |-> CommandSequence[call[r].cmd]]}]
            /\ SetCall(r, "read", call[r].cmd, call[r].syncAttempts, "none")
            /\ UNCHANGED <<released, lock>>
  /\ UNCHANGED <<single, extra, thisPort, thisReader, thisWriter>>

\* readResponse and the test of the response
U_Read(r) ==
  /\ call[r].pc = "read"
  /\ \/ /\ thisReader = NoHandle \/ Cancelled(thisReader)
        /\ U_Throw(r)
     \/ /\ thisReader # NoHandle /\ ~Cancelled(thisReader)
        /\ \/ U_Throw(r)
           \/ IF call[r].cmd < Len(CommandSequence)
                THEN /\ SetCall(r, "send", call[r].cmd + 1, call[r].syncAttempts, "none")
                     /\ UNCHANGED <<released, lock>>
                ELSE U_StartCleanup(r, "true", thisReader, thisWriter, lock)
  /\ UNCHANGED <<single, extra, thisPort, thisReader, thisWriter, wire>>

\* cleanup after the await of reader.cancel(): this.reader = null, then the writer
U_AfterCancel(r) ==
  /\ call[r].pc = "afterCancel"
  /\ thisReader' = NoHandle
  /\ U_CloseWriter(r, call[r].result, thisWriter, released, lock)
  /\ UNCHANGED <<single, extra, thisPort, thisWriter, wire>>

\* cleanup after the await of writer.close(): this.writer = null
U_AfterClose(r) ==
  /\ call[r].pc = "afterClose"
  /\ thisWriter' = NoHandle
  /\ SetCall(r, "done", call[r].cmd, call[r].syncAttempts, call[r].result)
  /\ UNCHANGED <<single, extra, thisPort, thisReader, lock, wire, released>>

ReentrantInit ==
  /\ Init
  /\ hexData = <<DataRec1, EofRec>>
  /\ rdCap = "free"
  /\ wrCap = "free"
  /\ sigCap = "present"

ReentrantNext ==
  \/ \E r \in Calls : U_Call(r)
  \/ \E r \in Calls : U_Reset(r)
  \/ \E r \in Calls : U_Acquire(r)
  \/ \E r \in Calls : U_Send(r)
  \/ \E r \in Calls : U_Read(r)
  \/ \E r \in Calls : U_AfterCancel(r)
  \/ \E r \in Calls : U_AfterClose(r)

ReentrantSpec == ReentrantInit /\ [][ReentrantNext]_vars

\* C20: two overlapping calls never share a transport or session state: no
\* port receives commands of both calls, no reader or writer is cancelled or
\* closed by a call other than the one that acquired it, and while a call is
\* exchanging commands this.reader and this.writer are the handles it acquired.
C20_NoSharedSession ==
  /\ \A p \in Ports : \A a, b \in wire[p] : a.by = b.by
  /\ \A x \in released : x.handle.owner = x.by
  /\ \A r \in Calls : call[r].pc \in {"send", "read"} =>
        (thisReader.owner = r /\ thisWriter.owner = r)

\* the stage a failed run was in, in the words of the stage list
FailedStage ==
  CASE phase = "init" -> "connecting"
    [] phase = "sync" -> "syncing"
    [] phase = "enter" -> "programming-mode entry"
    [] phase \in {"load", "page"} -> "uploading"
    [] phase = "leave" -> "leaving program mode"

\* the stage an error message names; "none" for a message that names no stage
StageNamed(msg) ==
  CASE msg \in {"getReader failed", "getWriter failed"} -> "connecting"
    [] msg = "Failed to sync with bootloader" -> "syncing"
    [] msg = "Failed to enter programming mode" -> "programming-mode entry"
    [] msg \in {"Failed to set address", "Failed to write page"} -> "uploading"
    [] msg = "Failed to leave programming mode" -> "leaving program mode"
    [] OTHER -> "none"

\* C21: the error reported by a failed run identifies the stage at which the
\* failure occurred: the message of its 'error' event names the stage the run
\* was in.
C21_ErrorNamesStage ==
  (Returned /\ result = "false") =>
     /\ LastEvent.stage = "error"
     /\ StageNamed(LastEvent.msg) = FailedStage

\* the order of the stages of the progress events
StageRank(stage) ==
  CASE stage = "connecting" -> 1
    [] stage = "syncing" -> 2
    [] stage = "uploading" -> 3
    [] stage = "verifying" -> 4
    [] stage = "complete" -> 5
    [] stage = "error" -> 6

ErrorEvents == {n \in 1..Len(events) : events[n].stage = "error"}

\* C22: the stages of the progress events of a run never go backward in the
\* order connecting, syncing, uploading, verifying, complete; an 'error'
\* event is emitted at most once, after any of them, and is the last event;
\* once it is emitted the run is in its cleanup step or past it, and the
\* cleanup step has run by the time the run returns.
C22_StageOrder ==
  /\ \A m, n \in 1..Len(events) :
       (m < n /\ events[n].stage # "error") =>
          /\ events[m].stage # "error"
          /\ StageRank(events[m].stage) <= StageRank(events[n].stage)
  /\ Cardinality(ErrorEvents) <= 1
  /\ ErrorEvents # {} =>
       /\ pc \in {"cleanup", "cleanupWriter", "done"}
       /\ pc # "cleanup" => cleanupRuns = 1

C22_Witness ==
  /\ Returned
  /\ Len(events) >= 4
  /\ LastEvent.stage = "error"
  /\ events[Len(events) - 1].stage = "uploading"
  /\ cleanupRuns = 1

\* the reset was not performed: no signalling on the port, or a setSignals
\* call threw before the sequence was complete
ResetNotPerformed == pc # "start" /\ signals # ResetSequence

\* C23: a reset that cannot be performed is never fatal: right after it the
\* run is acquiring the streams with no error raised; on a port with both
\* streams it emits 'connecting' before any 'error', and while the writable
\* stream works the first command it writes is the sync command.
C23_ResetNeverFatal ==
  ResetNotPerformed =>
     /\ pc = "acquireStreams" => (error = "none" /\ events = <<>>)
     /\ Acquired =>
          /\ Emitted("error") => events[1].stage = "connecting"
          /\ (writable # "errored"
                /\ pc \notin {"acquireStreams", "enterProgrammingMode", "syncLoop"})
               => (Len(written) >= 1 /\ IsSync(1))

C23_Witness ==
  /\ sigCap = "present"
  /\ Len(signals) = 1
  /\ Len(written) >= 2
  /\ IsSync(1)
  /\ IsEnter(2)

\* ---- the run on a port the caller has opened at some rate, or not opened ----
\* uploadSketch receives the port as it is: a closed port has no streams
InitOpen ==
  /\ pc = "start"
  /\ phase = "init"
  /\ hexData = <<DataRec1, EofRec>>
  /\ opened \in {0} \cup BaudRates
  /\ baudRate \in BaudRates
  /\ rdCap = IF opened = 0 THEN "absent" ELSE "free"
  /\ wrCap = IF opened = 0 THEN "absent" ELSE "free"
  /\ sigCap \in {"present", "absent"}
  /\ signals = <<>>
  /\ reader = "null"
  /\ writer = "null"
  /\ readable = "open"
  /\ writable = "open"
  /\ syncAttempts = 0
  /\ response = <<>>
  /\ expired = FALSE
  /\ hexLines = <<>>
  /\ i = 0
  /\ recAddress = 0
  /\ recData = <<>>
  /\ written = <<>>
  /\ events = <<>>
  /\ error = "none"
  /\ result = "none"
  /\ cancelCalls = 0
  /\ closeCalls = 0
  /\ cleanupRuns = 0
  /\ badSync = 0
  /\ cancelRequested = FALSE
  /\ SessionIdle
  /\ ExtraIdle

OpenSpec == InitOpen /\ [][Next]_vars

\* C24: before the first sync command of a run is written, the transport has
\* been opened at options.baudRate and the reset lines have been asserted and
\* then released. Stated for the runs whose reset was performed in full, where
\* the claim promises that the port is open at options.baudRate.
C24_OpenedAtBaudRate ==
  (Len(written) >= 1 /\ signals = ResetSequence) => opened = baudRate

\* a line the upload passes over: blank, not begun by the record marker, or
\* a Data record with byte count 0
Skipped(line) ==
  \/ line = <<>>
  \/ line[1] # ":"
  \/ HeaderValid(line) /\ TypeField(line) = 0 /\ DeclaredCount(line) = 0

\* C25: lines that do not begin with ':' and Data records with byte count 0
\* are skipped silently: no LOAD_ADDRESS or PROG_PAGE comes from such a line,
\* the run writes at most one pair per other line, and with a bootloader that
\* answers every command a text holding such lines still ends with 'complete'
\* and the result true.
C25_SkippedSilently ==
  /\ \A p \in Positions : (IsLoad(p) \/ IsPage(p)) => ~Skipped(SourceLine(p))
  /\ Len(FlashCommands) <= 2 * Cardinality({n \in 1..Len(hexData) : ~Skipped(hexData[n])})
  /\ (\E n \in 1..Len(hexData) : Skipped(hexData[n])) =>
        /\ ~Emitted("error")
        /\ result # "false"
        /\ Returned => (result = "true" /\ LastEvent.stage = "complete")

C25_Witness ==
  /\ Returned
  /\ hexData = <<CommentLine, ZeroLenRec, DataRec1>>
  /\ Len(FlashCommands) = 2
  /\ result = "true"

\* the hex text without its type-04 records
StripExtended(text) ==
  SelectSeq(text, LAMBDA l : ~(HeaderValid(l) /\ l[1] = ":" /\ TypeField(l) = 4))

\* every data record of the text has the data digits it declares
AllDataPresent ==
  \A n \in 1..Len(hexData) :
     (hexData[n] # <<>> /\ hexData[n][1] = ":" /\ NonEmptyData(hexData[n]))
        => DataPresent(hexData[n])

\* C26: type-04 records are not honored: the commands of a run are those of
\* the hex text with its type-04 records removed, so two texts that differ
\* only by such records give the same commands; the address of every
\* LOAD_ADDRESS is the 16-bit address field of its own record.
C26_ExtendedAddressIgnored ==
  LET stripped == RecordLines(StripExtended(hexData)) IN
  /\ Len(LoadAddresses) <= Len(ExpectedAddresses(stripped))
  /\ LoadAddresses = SubSeq(ExpectedAddresses(stripped), 1, Len(LoadAddresses))
  /\ Returned => LoadAddresses = ExpectedAddresses(stripped)
  /\ (Returned /\ AllDataPresent) => FlashCommands = ExpectedCommands(stripped)

C26_Witness ==
  /\ Returned
  /\ hexData = <<ExtAddrRec, DataRec1, ExtAddrRec2>>
  /\ LoadAddresses = << <<0, 0>> >>

\* the record has the length its byte count declares, checksum included
FullLength(line) == HeaderValid(line) /\ Len(line) = 11 + 2 * DeclaredCount(line)

RECURSIVE ByteSum(_)
ByteSum(str) ==
  IF Len(str) < 2 THEN 0
  ELSE HexValue(SubSeq(str, 1, 2)) + ByteSum(SubSeq(str, 3, Len(str)))

\* the bytes of the record, checksum included, sum to 0 modulo 256
ChecksumValid(line) == ByteSum(Tail(line)) % 256 = 0

\* a record that is well formed but for its checksum byte
WrongChecksum(line) == WellFormedLine(line) /\ ~ChecksumValid(line)

\* the record with its checksum byte replaced by 00
ChecksumCleared(line) ==
  IF FullLength(line) THEN SubSeq(line, 1, Len(line) - 2) \o <<"0", "0">> ELSE line

C28_NoReadBack ==
  [][/\ pc = "verifyUpload" =>
          /\ pc' = "leaveSend"
          /\ written' = written
          /\ response' = response
          /\ readable' = readable /\ writable' = writable
          /\ error' = error
     /\ \A p \in 1..Len(written') :
          /\ written'[p].cmd[1] \in {STK_GET_SYNC, STK_ENTER_PROGMODE, STK_LOAD_ADDRESS,
                                    STK_PROG_PAGE, STK_LEAVE_PROGMODE}
          /\ written'[p].cmd = <<STK_LEAVE_PROGMODE, STK_CRC_EOP>> =>
               /\ p > 1
               /\ written'[p - 1].cmd[1] \in {STK_PROG_PAGE, STK_ENTER_PROGMODE}
               /\ written'[p - 1].res = "ok"]_vars

C28_Witness ==
  /\ pc = "leaveSend"
  /\ Len(written) >= 1
  /\ IsPage(Len(written))
  /\ LastEvent.stage = "verifying"
  /\ LastEvent.num = 95

\* ---- the run and a caller that wants to cancel it ----
\* UploadOptions has the fields boardId, baudRate, hexData and onProgress and
\* uploadSketch returns a promise of a boolean: the caller's request reaches
\* no step of the run, so no action of the uploader reads cancelRequested
RequestCancel ==
  /\ pc # "done"
  /\ ~cancelRequested
  /\ cancelRequested' = TRUE
  /\ UNCHANGED <<pc, phase, hexData, rdCap, wrCap, sigCap, signals, reader, writer,
                 readable, writable, syncAttempts, response, expired, hexLines, i,
                 recAddress, recData, written, events, error, result, cancelCalls,
                 closeCalls, cleanupRuns, badSync, opened, baudRate, session, extra>>

InitCancel ==
  /\ Init
  /\ hexData = <<DataRec1, EofRec>>
  /\ rdCap = "free"
  /\ wrCap = "free"
  /\ sigCap = "present"

NextCancel ==
  \/ Next
  \/ RequestCancel

CancelSpec == InitCancel /\ [][NextCancel]_vars

\* C29: the caller can cancel a run between steps: after a cancellation
\* request no further command is sent (and no command undoes the pages
\* already written).
C29_CancelStopsCommands ==
  [][cancelRequested => written' = written]_vars

TerminalEvents == {n \in 1..Len(events) : events[n].stage \in {"complete", "error"}}

\* C30: every run that returns ends with exactly one terminal event, which is
\* the last event: 'complete' with progress 100 exactly when the run returns
\* true, 'error' with progress 0 exactly when it returns false; a run returns
\* true or false on every path, a failed release in cleanup included, and
\* never rejects. The onProgress callback is one that returns normally.
C30_OneTerminalEvent ==
  /\ Cardinality(TerminalEvents) <= 1
  /\ \A n \in TerminalEvents :
       /\ n = Len(events)
       /\ events[n].stage = "complete" => (events[n].num = 100 /\ events[n].den = 1)
       /\ events[n].stage = "error" => events[n].num = 0
  /\ result \in {"none", "true", "false"}
  /\ result = "true" <=> Emitted("complete")
  /\ result = "false" <=> Emitted("error")
  /\ Returned =>
       /\ result \in {"true", "false"}
       /\ Cardinality(TerminalEvents) = 1

C30_Witness ==
  /\ Returned
  /\ result = "false"
  /\ phase = "page"
  /\ readable = "errored"
  /\ reader = "held"
  /\ cancelCalls = 1
  /\ LastEvent.stage = "error"

UploaderIdle ==
  /\ pc = "start"
  /\ phase = "init"
  /\ hexData = <<>>
  /\ rdCap = "free"
  /\ wrCap = "free"
  /\ sigCap = "present"
  /\ signals = <<>>
  /\ reader = "null"
  /\ writer = "null"
  /\ readable = "open"
  /\ writable = "open"
  /\ syncAttempts = 0
  /\ response = <<>>
  /\ expired = FALSE
  /\ hexLines = <<>>
  /\ i = 0
  /\ recAddress = 0
  /\ recData = <<>>
  /\ written = <<>>
  /\ events = <<>>
  /\ error = "none"
  /\ result = "none"
  /\ cancelCalls = 0
  /\ closeCalls = 0
  /\ cleanupRuns = 0
  /\ badSync = 0
  /\ opened = DefaultBaud
  /\ baudRate = DefaultBaud
  /\ cancelRequested = FALSE

InitRead ==
  /\ UploaderIdle
  /\ SessionIdle
  /\ ServiceIdle
  /\ incoming \in UNION {[1..n -> Chunks] : n \in 0..MaxChunks}
  /\ readCall = [pc |-> "idle", response |-> <<>>, taken |-> 0]
  /\ returned = <<>>

\* readResponse is called with a reader: const response = []
R_ReadResponse ==
  /\ readCall.pc = "idle"
  /\ Len(returned) < MaxReads
  /\ readCall' = [readCall EXCEPT !.pc = "reading", !.response = <<>>]
  /\ UNCHANGED <<single, session, serviceModel, incoming, returned>>

\* read() resolves with the next chunk; its bytes are pushed, and the loop
\* goes on, returns, or ends on the timeout with the response incomplete
R_ReadChunk ==
  /\ readCall.pc = "reading"
  /\ readCall.taken < Len(incoming)
  /\ LET resp == Accumulate(readCall.response, incoming[readCall.taken + 1]) IN
     IF Len(resp) >= expectedLength
       THEN /\ returned' = Append(returned, [bytes |-> resp, upto |-> readCall.taken + 1])
            /\ readCall' = [pc |-> "idle", response |-> resp, taken |-> readCall.taken + 1]
       ELSE /\ \E late \in BOOLEAN :
                 readCall' = [pc |-> IF late THEN "failed" ELSE "reading",
                              response |-> resp, taken |-> readCall.taken + 1]
            /\ UNCHANGED returned
  /\ UNCHANGED <<single, session, serviceModel, incoming>>

\* read() resolves with done: the loop breaks and readResponse throws
R_ReadDone ==
  /\ readCall.pc = "reading"
  /\ readCall.taken = Len(incoming)
  /\ readCall' = [readCall EXCEPT !.pc = "failed"]
  /\ UNCHANGED <<single, session, serviceModel, incoming, returned>>

NextRead ==
  \/ R_ReadResponse
  \/ R_ReadChunk
  \/ R_ReadDone

ReadSpec == InitRead /\ [][NextRead]_vars

RECURSIVE Flatten(_)
Flatten(chunks) ==
  IF chunks = <<>> THEN <<>> ELSE Head(chunks) \o Flatten(Tail(chunks))

\* C32: a successful readResponse(2) returns exactly the first 2 bytes
\* delivered since that read began, in arrival order and across chunks, and
\* stops at the chunk that completes them; the bytes of that chunk beyond the
\* second reach no later read, which starts at the next chunk.
C32_FirstTwoBytes ==
  \A n \in 1..Len(returned) :
    LET from == IF n = 1 THEN 1 ELSE returned[n - 1].upto + 1
        upto == returned[n].upto
        bytes == Flatten(SubSeq(incoming, from, upto))
    IN /\ from <= upto
       /\ Len(bytes) >= 2
       /\ returned[n].bytes = <<bytes[1], bytes[2]>>
       /\ Len(Flatten(SubSeq(incoming, from, upto - 1))) < 2

C32_Witness ==
  /\ incoming = << <<STK_INSYNC>>, <<STK_OK, STK_OK, STK_INSYNC>>, <<STK_INSYNC, STK_FAILED>> >>
  /\ Len(returned) = 2
  /\ returned[1].bytes = <<STK_INSYNC, STK_OK>>
  /\ returned[2].bytes = <<STK_INSYNC, STK_FAILED>>

\* ---- SerialService: connect, the background read loop, disconnect ----
InitService ==
  /\ UploaderIdle
  /\ SessionIdle
  /\ ReadIdle
  /\ ServiceIdle

\* connect: port.open rejects and connect returns false, or the port opens,
\* isConnected is set, startReading locks the readable stream and issues its
\* first read, and setupWriter locks the writable stream
S_Connect ==
  /\ serviceAt.connect = "idle"
  /\ \/ /\ service' = [service EXCEPT !.port = "held"]
        /\ serviceAt' = [serviceAt EXCEPT !.connect = "failed"]
        /\ UNCHANGED servicePort
     \/ /\ service' = [port |-> "held", reader |-> "held", writer |-> "held",
                       isConnected |-> TRUE]
        /\ serviceAt' = [serviceAt EXCEPT !.connect = "done", !.loop = "reading"]
        /\ servicePort' = [servicePort EXCEPT !.readable = "open", !.writable = "open"]
  /\ UNCHANGED <<single, session, readModel>>

\* the device is unplugged or the line fails: both streams become errored
S_DeviceLost ==
  /\ serviceAt.connect = "done"
  /\ servicePort.readable = "open"
  /\ servicePort' = [servicePort EXCEPT
                       !.readable = "errored",
                       !.writable = IF @ = "open" THEN "errored" ELSE @]
  /\ UNCHANGED <<single, session, readModel, service, serviceAt>>

\* sendMessage with a writer and isConnected set: the line is written; without
\* them, or when write() rejects, it notifies an error and changes nothing
S_SendMessage ==
  /\ service.writer = "held"
  /\ service.isConnected
  /\ servicePort.writable = "open"
  /\ servicePort.sent < MaxMessages
  /\ servicePort' = [servicePort EXCEPT !.sent = @ + 1]
  /\ UNCHANGED <<single, session, readModel, service, serviceAt>>

\* the end of startReading: finally { this.reader?.releaseLock() }
S_LoopEnd ==
  /\ serviceAt' = [serviceAt EXCEPT !.loop = "ended"]
  /\ servicePort' = [servicePort EXCEPT
                       !.released = @ \/ service.reader = "held"]

\* read() resolves with a chunk: the lines are notified and the loop tests
\* this.isConnected
S_LoopData ==
  /\ serviceAt.loop = "reading"
  /\ servicePort.readable = "open"
  /\ servicePort.received < MaxMessages
  /\ IF service.isConnected
       THEN /\ servicePort' = [servicePort EXCEPT !.received = @ + 1]
            /\ UNCHANGED serviceAt
       ELSE /\ serviceAt' = [serviceAt EXCEPT !.loop = "ended"]
            /\ servicePort' = [servicePort EXCEPT
                                 !.received = @ + 1,
                                 !.released = @ \/ service.reader = "held"]
  /\ UNCHANGED <<single, session, readModel, service>>

\* read() resolves with done after the cancel of the stream
S_LoopDone ==
  /\ serviceAt.loop = "reading"
  /\ servicePort.readable = "closed"
  /\ S_LoopEnd
  /\ UNCHANGED <<single, session, readModel, service>>

\* read() rejects on the errored stream; the catch notifies the error
S_LoopError ==
  /\ serviceAt.loop = "reading"
  /\ servicePort.readable = "errored"
  /\ S_LoopEnd
  /\ UNCHANGED <<single, session, readModel, service>>

\* disconnect from the test of this.port on: port.close() resolves or rejects
S_ClosePort(svc, sp) ==
  IF svc.port = "held"
    THEN \/ /\ serviceAt' = [serviceAt EXCEPT !.disconnect = "afterPortClose"]
            /\ servicePort' = [sp EXCEPT !.readable = "absent", !.writable = "absent"]
            /\ service' = svc
         \/ /\ serviceAt' = [serviceAt EXCEPT !.disconnect = "done"]
            /\ servicePort' = sp
            /\ service' = svc
    ELSE /\ serviceAt' = [serviceAt EXCEPT !.disconnect = "done"]
         /\ servicePort' = sp
         /\ service' = [svc EXCEPT !.isConnected = FALSE]

\* disconnect from the test of this.writer on: close() rejects on an errored
\* stream, and the catch of disconnect ends it
S_CloseWriter(svc) ==
  IF svc.writer = "held"
    THEN IF servicePort.writable = "errored"
           THEN /\ serviceAt' = [serviceAt EXCEPT !.disconnect = "done"]
                /\ service' = svc
                /\ UNCHANGED servicePort
           ELSE /\ serviceAt' = [serviceAt EXCEPT !.disconnect = "afterClose"]
                /\ servicePort' = [servicePort EXCEPT !.writable = "closed"]
                /\ service' = svc
    ELSE S_ClosePort(svc, servicePort)

\* disconnect is called: reader.cancel() rejects on a reader whose lock was
\* released and on an errored stream
S_Disconnect ==
  /\ serviceAt.connect = "done"
  /\ serviceAt.disconnect = "idle"
  /\ IF service.reader = "held"
       THEN IF servicePort.released \/ servicePort.readable = "errored"
              THEN /\ serviceAt' = [serviceAt EXCEPT !.disconnect = "done"]
                   /\ UNCHANGED <<service, servicePort>>
              ELSE /\ serviceAt' = [serviceAt EXCEPT !.disconnect = "afterCancel"]
                   /\ servicePort' = [servicePort EXCEPT !.readable = "closed"]
                   /\ UNCHANGED service
       ELSE S_CloseWriter(service)
  /\ UNCHANGED <<single, session, readModel>>

\* after the await of reader.cancel(): this.reader = null, then the writer
S_AfterCancel ==
  /\ serviceAt.disconnect = "afterCancel"
  /\ S_CloseWriter([service EXCEPT !.reader = "null"])
  /\ UNCHANGED <<single, session, readModel>>

\* after the await of writer.close(): this.writer = null, then the port
S_AfterClose ==
  /\ serviceAt.disconnect = "afterClose"
  /\ S_ClosePort([service EXCEPT !.writer = "null"], servicePort)
  /\ UNCHANGED <<single, session, readModel>>

\* after the await of port.close(): this.port = null, isConnected = false
S_AfterPortClose ==
  /\ serviceAt.disconnect = "afterPortClose"
  /\ service' = [service EXCEPT !.port = "null", !.isConnected = FALSE]
  /\ serviceAt' = [serviceAt EXCEPT !.disconnect = "done"]
  /\ UNCHANGED <<single, session, readModel, servicePort>>

NextService ==
  \/ S_Connect
  \/ S_DeviceLost
  \/ S_SendMessage
  \/ S_LoopData
  \/ S_LoopDone
  \/ S_LoopError
  \/ S_Disconnect
  \/ S_AfterCancel
  \/ S_AfterClose
  \/ S_AfterPortClose

ServiceSpec == InitService /\ [][NextService]_vars

\* C33: once disconnect() has returned after a successful connect(),
\* getConnectionStatus() is false and the service holds no port, reader or
\* writer, whatever the read loop did and also when cancel(), close() or
\* port.close() threw.
C33_DisconnectReleasesAll ==
  (serviceAt.connect = "done" /\ serviceAt.disconnect = "done") =>
     service = [port |-> "null", reader |-> "null", writer |-> "null",
                isConnected |-> FALSE]
====
